---- MODULE Spec2Model ----
(***************************************************************************)
(* Model of src/app.py: a Flask service whose guarded endpoints pass a     *)
(* per-IP sliding-window rate limiter (rate_limit), an e-mail allow-list   *)
(* (EmailAuthManager, require_authorized_email) and then notify Telegram.  *)
(* Request handlers run on threads of the hosting server, so every handler *)
(* is modelled statement by statement with a program counter per thread.   *)
(***************************************************************************)
EXTENDS Integers, Sequences, FiniteSets, TLC

\* ---------------------------------------------------------------- bounds
\* Largest RATE_LIMIT the environment is allowed to configure.
MaxLimit == 2
\* Largest RATE_WINDOW the environment is allowed to configure.
MaxWindow == 2
\* Last clock reading of time.time().
MaxTime == 3
\* Number of rate-limited requests that are started in one behaviour.
MaxRequests == 3
\* Number of requests one client makes in the window-boundary scenario.
ScenarioCalls == 5
\* Clock readings at which the client of the window-boundary scenario calls.
ScenarioTimes == {0, 10, 20, 60, 61, 62, 70}

\* Worker threads of the server and the addresses requests come from.
Threads == {"t1", "t2"}
\* The thread of a server that runs one request at a time.
Worker == "t1"
Clients == {"ipA", "ipB"}

\* ------------------------------------------------- strings as characters
\* The characters of every string the model handles (a Python str is read
\* character by character by strip, lower and `in`).
Chars ==
  ("julioalbertolazarte00@gmail.com" :> <<"j", "u", "l", "i", "o", "a", "l", "b", "e", "r", "t", "o", "l", "a", "z", "a", "r", "t", "e", "0", "0", "@", "g", "m", "a", "i", "l", ".", "c", "o", "m">>) @@
  ("am@dongaston.com.ar" :> <<"a", "m", "@", "d", "o", "n", "g", "a", "s", "t", "o", "n", ".", "c", "o", "m", ".", "a", "r">>) @@
  ("horaciorojas@dongaston.com.ar" :> <<"h", "o", "r", "a", "c", "i", "o", "r", "o", "j", "a", "s", "@", "d", "o", "n", "g", "a", "s", "t", "o", "n", ".", "c", "o", "m", ".", "a", "r">>) @@
  ("promayorista@hotmail.com" :> <<"p", "r", "o", "m", "a", "y", "o", "r", "i", "s", "t", "a", "@", "h", "o", "t", "m", "a", "i", "l", ".", "c", "o", "m">>) @@
  ("bernicucher@gmail.com" :> <<"b", "e", "r", "n", "i", "c", "u", "c", "h", "e", "r", "@", "g", "m", "a", "i", "l", ".", "c", "o", "m">>) @@
  ("miguelbalbuena@dongaston.com.ar" :> <<"m", "i", "g", "u", "e", "l", "b", "a", "l", "b", "u", "e", "n", "a", "@", "d", "o", "n", "g", "a", "s", "t", "o", "n", ".", "c", "o", "m", ".", "a", "r">>) @@
  ("jacosta@dongaston.com.ar" :> <<"j", "a", "c", "o", "s", "t", "a", "@", "d", "o", "n", "g", "a", "s", "t", "o", "n", ".", "c", "o", "m", ".", "a", "r">>) @@
  ("compras@dongaston.com.ar" :> <<"c", "o", "m", "p", "r", "a", "s", "@", "d", "o", "n", "g", "a", "s", "t", "o", "n", ".", "c", "o", "m", ".", "a", "r">>) @@
  ("dariocividini@dongaston.com.ar" :> <<"d", "a", "r", "i", "o", "c", "i", "v", "i", "d", "i", "n", "i", "@", "d", "o", "n", "g", "a", "s", "t", "o", "n", ".", "c", "o", "m", ".", "a", "r">>) @@
  ("acasella@dongaston.com.ar" :> <<"a", "c", "a", "s", "e", "l", "l", "a", "@", "d", "o", "n", "g", "a", "s", "t", "o", "n", ".", "c", "o", "m", ".", "a", "r">>) @@
  ("cristinaaguirre@dongaston.com.ar.com" :> <<"c", "r", "i", "s", "t", "i", "n", "a", "a", "g", "u", "i", "r", "r", "e", "@", "d", "o", "n", "g", "a", "s", "t", "o", "n", ".", "c", "o", "m", ".", "a", "r", ".", "c", "o", "m">>) @@
  ("cristinaaguirre@dongaston.com.ar" :> <<"c", "r", "i", "s", "t", "i", "n", "a", "a", "g", "u", "i", "r", "r", "e", "@", "d", "o", "n", "g", "a", "s", "t", "o", "n", ".", "c", "o", "m", ".", "a", "r">>) @@
  ("" :> <<>>) @@
  ("  AM@DonGaston.com.ar " :> <<" ", " ", "A", "M", "@", "D", "o", "n", "G", "a", "s", "t", "o", "n", ".", "c", "o", "m", ".", "a", "r", " ">>) @@
  ("intruso@example.com" :> <<"i", "n", "t", "r", "u", "s", "o", "@", "e", "x", "a", "m", "p", "l", "e", ".", "c", "o", "m">>) @@
  ("noatsign.com" :> <<"n", "o", "a", "t", "s", "i", "g", "n", ".", "c", "o", "m">>) @@
  ("a@b.com<script>" :> <<"a", "@", "b", ".", "c", "o", "m", "<", "s", "c", "r", "i", "p", "t", ">">>) @@
  (" " :> <<" ">>) @@
  ("JULIOALBERTOLAZARTE00@GMAIL.COM" :> <<"J", "U", "L", "I", "O", "A", "L", "B", "E", "R", "T", "O", "L", "A", "Z", "A", "R", "T", "E", "0", "0", "@", "G", "M", "A", "I", "L", ".", "C", "O", "M">>) @@
  ("AM@DONGASTON.COM.AR" :> <<"A", "M", "@", "D", "O", "N", "G", "A", "S", "T", "O", "N", ".", "C", "O", "M", ".", "A", "R">>) @@
  ("HORACIOROJAS@DONGASTON.COM.AR" :> <<"H", "O", "R", "A", "C", "I", "O", "R", "O", "J", "A", "S", "@", "D", "O", "N", "G", "A", "S", "T", "O", "N", ".", "C", "O", "M", ".", "A", "R">>) @@
  ("PROMAYORISTA@HOTMAIL.COM" :> <<"P", "R", "O", "M", "A", "Y", "O", "R", "I", "S", "T", "A", "@", "H", "O", "T", "M", "A", "I", "L", ".", "C", "O", "M">>) @@
  ("BERNICUCHER@GMAIL.COM" :> <<"B", "E", "R", "N", "I", "C", "U", "C", "H", "E", "R", "@", "G", "M", "A", "I", "L", ".", "C", "O", "M">>) @@
  ("MIGUELBALBUENA@DONGASTON.COM.AR" :> <<"M", "I", "G", "U", "E", "L", "B", "A", "L", "B", "U", "E", "N", "A", "@", "D", "O", "N", "G", "A", "S", "T", "O", "N", ".", "C", "O", "M", ".", "A", "R">>) @@
  ("JACOSTA@DONGASTON.COM.AR" :> <<"J", "A", "C", "O", "S", "T", "A", "@", "D", "O", "N", "G", "A", "S", "T", "O", "N", ".", "C", "O", "M", ".", "A", "R">>) @@
  ("COMPRAS@DONGASTON.COM.AR" :> <<"C", "O", "M", "P", "R", "A", "S", "@", "D", "O", "N", "G", "A", "S", "T", "O", "N", ".", "C", "O", "M", ".", "A", "R">>) @@
  ("DARIOCIVIDINI@DONGASTON.COM.AR" :> <<"D", "A", "R", "I", "O", "C", "I", "V", "I", "D", "I", "N", "I", "@", "D", "O", "N", "G", "A", "S", "T", "O", "N", ".", "C", "O", "M", ".", "A", "R">>) @@
  ("ACASELLA@DONGASTON.COM.AR" :> <<"A", "C", "A", "S", "E", "L", "L", "A", "@", "D", "O", "N", "G", "A", "S", "T", "O", "N", ".", "C", "O", "M", ".", "A", "R">>) @@
  ("CRISTINAAGUIRRE@DONGASTON.COM.AR.COM" :> <<"C", "R", "I", "S", "T", "I", "N", "A", "A", "G", "U", "I", "R", "R", "E", "@", "D", "O", "N", "G", "A", "S", "T", "O", "N", ".", "C", "O", "M", ".", "A", "R", ".", "C", "O", "M">>) @@
  ("CRISTINAAGUIRRE@DONGASTON.COM.AR" :> <<"C", "R", "I", "S", "T", "I", "N", "A", "A", "G", "U", "I", "R", "R", "E", "@", "D", "O", "N", "G", "A", "S", "T", "O", "N", ".", "C", "O", "M", ".", "A", "R">>) @@
  (" am@dongaston.com.ar" :> <<" ", "a", "m", "@", "d", "o", "n", "g", "a", "s", "t", "o", "n", ".", "c", "o", "m", ".", "a", "r">>) @@
  ("am@dongaston.com.ar " :> <<"a", "m", "@", "d", "o", "n", "g", "a", "s", "t", "o", "n", ".", "c", "o", "m", ".", "a", "r", " ">>) @@
  ("\tam@dongaston.com.ar" :> <<"\t", "a", "m", "@", "d", "o", "n", "g", "a", "s", "t", "o", "n", ".", "c", "o", "m", ".", "a", "r">>) @@
  ("  Compras@DonGaston.com.ar  " :> <<" ", " ", "C", "o", "m", "p", "r", "a", "s", "@", "D", "o", "n", "G", "a", "s", "t", "o", "n", ".", "c", "o", "m", ".", "a", "r", " ", " ">>) @@
  (" CristinaAguirre@dongaston.com.ar.com" :> <<" ", "C", "r", "i", "s", "t", "i", "n", "a", "A", "g", "u", "i", "r", "r", "e", "@", "d", "o", "n", "g", "a", "s", "t", "o", "n", ".", "c", "o", "m", ".", "a", "r", ".", "c", "o", "m">>) @@
  ("CristinaAguirre@dongaston.com.ar " :> <<"C", "r", "i", "s", "t", "i", "n", "a", "A", "g", "u", "i", "r", "r", "e", "@", "d", "o", "n", "g", "a", "s", "t", "o", "n", ".", "c", "o", "m", ".", "a", "r", " ">>) @@
  (" intruso@example.com " :> <<" ", "i", "n", "t", "r", "u", "s", "o", "@", "e", "x", "a", "m", "p", "l", "e", ".", "c", "o", "m", " ">>) @@
  ("INTRUSO@example.com" :> <<"I", "N", "T", "R", "U", "S", "O", "@", "e", "x", "a", "m", "p", "l", "e", ".", "c", "o", "m">>) @@
  ("am @dongaston.com.ar" :> <<"a", "m", " ", "@", "d", "o", "n", "g", "a", "s", "t", "o", "n", ".", "c", "o", "m", ".", "a", "r">>) @@
  ("  " :> <<" ", " ">>) @@
  ("\t" :> <<"\t">>) @@
  ("  USER@Example.com " :> <<" ", " ", "U", "S", "E", "R", "@", "E", "x", "a", "m", "p", "l", "e", ".", "c", "o", "m", " ">>) @@
  ("user@example.com" :> <<"u", "s", "e", "r", "@", "e", "x", "a", "m", "p", "l", "e", ".", "c", "o", "m">>) @@
  ("not-registered@x.com" :> <<"n", "o", "t", "-", "r", "e", "g", "i", "s", "t", "e", "r", "e", "d", "@", "x", ".", "c", "o", "m">>) @@
  ("a@b.com" :> <<"a", "@", "b", ".", "c", "o", "m">>) @@
  ("A@B.COM" :> <<"A", "@", "B", ".", "C", "O", "M">>) @@
  ("a@b.com<" :> <<"a", "@", "b", ".", "c", "o", "m", "<">>) @@
  ("a@b.com>" :> <<"a", "@", "b", ".", "c", "o", "m", ">">>) @@
  ("a@b.com\"" :> <<"a", "@", "b", ".", "c", "o", "m", "\"">>) @@
  ("a@b.com'" :> <<"a", "@", "b", ".", "c", "o", "m", "'">>) @@
  ("a@b.com;" :> <<"a", "@", "b", ".", "c", "o", "m", ";">>) @@
  ("a@b.com\\" :> <<"a", "@", "b", ".", "c", "o", "m", "\\">>) @@
  ("a@b.com/" :> <<"a", "@", "b", ".", "c", "o", "m", "/">>) @@
  ("a@b.com(" :> <<"a", "@", "b", ".", "c", "o", "m", "(">>) @@
  ("a@b.com)" :> <<"a", "@", "b", ".", "c", "o", "m", ")">>) @@
  ("a@b.com{" :> <<"a", "@", "b", ".", "c", "o", "m", "{">>) @@
  ("a@b.com}" :> <<"a", "@", "b", ".", "c", "o", "m", "}">>) @@
  ("<a@b.com" :> <<"<", "a", "@", "b", ".", "c", "o", "m">>) @@
  ("a@bcom" :> <<"a", "@", "b", "c", "o", "m">>) @@
  ("ab.com" :> <<"a", "b", ".", "c", "o", "m">>) @@
  ("@" :> <<"@">>) @@
  ("." :> <<".">>) @@
  ("@." :> <<"@", ".">>) @@
  ("a b@c.d" :> <<"a", " ", "b", "@", "c", ".", "d">>) @@
  ("abc" :> <<"a", "b", "c">>)

\* Values the query parameter `email` takes in the modelled requests
\* ("" is the absent parameter, request.args.get('email', '')).
RawEmails ==
  { "", "am@dongaston.com.ar", "  AM@DonGaston.com.ar ", "intruso@example.com",
    "a@b.com<script>", "cristinaaguirre@dongaston.com.ar" }

\* The e-mails of the requests of the threaded runs.
ThreadedEmails == {"am@dongaston.com.ar", "intruso@example.com"}
\* The email parameters of the requests whose security alerts are logged:
\* missing, authorized, not listed.
AlertEmails == {"", "am@dongaston.com.ar", "intruso@example.com"}

\* Values of the query parameter `archivo` of /download.
Archivos == {"alertas", "otro"}

UpperChars ==
  <<"A", "B", "C", "D", "E", "F", "G", "H", "I", "J", "K", "L", "M",
    "N", "O", "P", "Q", "R", "S", "T", "U", "V", "W", "X", "Y", "Z">>
LowerChars ==
  <<"a", "b", "c", "d", "e", "f", "g", "h", "i", "j", "k", "l", "m",
    "n", "o", "p", "q", "r", "s", "t", "u", "v", "w", "x", "y", "z">>
Whitespace == {" ", "\t", "\n", "\r"}

\* str.lower() on one character.
LowerChar(c) ==
  IF \E i \in 1..Len(UpperChars) : UpperChars[i] = c
    THEN LowerChars[CHOOSE i \in 1..Len(UpperChars) : UpperChars[i] = c]
    ELSE c

\* str.lower()
Lower(s) == [i \in 1..Len(s) |-> LowerChar(s[i])]

RECURSIVE LStrip(_)
LStrip(s) ==
  IF s # <<>> /\ Head(s) \in Whitespace THEN LStrip(Tail(s)) ELSE s

RECURSIVE RStrip(_)
RStrip(s) ==
  IF s # <<>> /\ s[Len(s)] \in Whitespace
    THEN RStrip(SubSeq(s, 1, Len(s) - 1))
    ELSE s

\* str.strip()
Strip(s) == RStrip(LStrip(s))

\* `c in s` for a character c
Contains(s, c) == \E i \in 1..Len(s) : s[i] = c

\* The str whose characters are cs
Str(cs) == CHOOSE s \in DOMAIN Chars : Chars[s] = cs

\* ------------------------------------------------------ EmailAuthManager
\* self.emails_autorizados as built by __init__
AuthorizedEmailsInit ==
  { "julioalbertolazarte00@gmail.com", "am@dongaston.com.ar",
    "horaciorojas@dongaston.com.ar", "promayorista@hotmail.com",
    "bernicucher@gmail.com", "miguelbalbuena@dongaston.com.ar",
    "jacosta@dongaston.com.ar", "compras@dongaston.com.ar",
    "dariocividini@dongaston.com.ar", "acasella@dongaston.com.ar",
    "cristinaaguirre@dongaston.com.ar.com" }

\* self.nombres_por_email as built by __init__
NombresInit ==
  ("julioalbertolazarte00@gmail.com" :> "JAL") @@
  ("am@dongaston.com.ar" :> "Mauricio") @@
  ("horaciorojas@dongaston.com.ar" :> "Horacio") @@
  ("promayorista@hotmail.com" :> "Gaston") @@
  ("bernicucher@gmail.com" :> "Bernardo") @@
  ("miguelbalbuena@dongaston.com.ar" :> "Miguel") @@
  ("jacosta@dongaston.com.ar" :> "Julio") @@
  ("compras@dongaston.com.ar" :> "Eduardo") @@
  ("dariocividini@dongaston.com.ar" :> "Dario") @@
  ("acasella@dongaston.com.ar" :> "Alberto") @@
  ("cristinaaguirre@dongaston.com.ar" :> "Cristina")

\* s.strip().lower()
StripLower(s) == Str(Lower(Strip(Chars[s])))

\* StripLower, evaluated once for every string of the model.
StripLowerOf == [s \in DOMAIN Chars |-> StripLower(s)]

\* email_normalizado = email.strip().lower()
email_normalizado(email) == StripLowerOf[email]

\* A lookup that trusts the name table instead of the allow-list.
is_email_authorized_by_name(email, autorizados, nombres) ==
  IF email = ""
    THEN <<FALSE, "Email vacio">>
    ELSE <<email_normalizado(email) \in DOMAIN nombres,
           IF email_normalizado(email) \in DOMAIN nombres
             THEN nombres[email_normalizado(email)]
             ELSE "Usuario desconocido">>

\* EmailAuthManager.is_email_authorized: <<autorizado, nombre>>
is_email_authorized(email, autorizados, nombres) ==
  IF email = ""
    THEN <<FALSE, "Email vacio">>
    ELSE <<email_normalizado(email) \in autorizados,
           IF email_normalizado(email) \in DOMAIN nombres
             THEN nombres[email_normalizado(email)]
             ELSE "Usuario desconocido">>

\* nombres_por_email after a lookup that inserts the default (setdefault).
nombres_after_setdefault(nombres, key) ==
  IF key \in DOMAIN nombres
    THEN nombres
    ELSE [k \in DOMAIN nombres \cup {key} |->
            IF k = key THEN "Usuario desconocido" ELSE nombres[k]]

\* self.nombres_por_email after self.nombres_por_email.get(key, default)
nombres_after_get(nombres, key) == nombres

\* EmailAuthManager.get_authorized_emails: list(self.emails_autorizados)
get_authorized_emails(autorizados) == autorizados

\* ------------------------------------------------------- validate_email
\* The list of suspicious characters without the backslash.
suspicious_chars_no_backslash ==
  {"<", ">", "\"", "'", ";", "/", "(", ")", "{", "}"}

suspicious_chars == {"<", ">", "\"", "'", ";", "\\", "/", "(", ")", "{", "}"}

\* the body of validate_email
ValidFormat(email) ==
  /\ email # ""
  /\ Contains(Chars[email], "@") /\ Contains(Chars[email], ".")
  /\ ~ \E c \in suspicious_chars : Contains(Chars[email], c)

\* ValidFormat, evaluated once for every string of the model.
ValidFormatOf == [s \in DOMAIN Chars |-> ValidFormat(s)]

\* validate_email reduced to its first test (`if not email`).
validate_email_nonempty(email) == email # ""

validate_email(email) == ValidFormatOf[email]

\* ---------------------------------------------------------- rate_limit
\* request.remote_addr when every client reaches the server through one proxy.
remote_addr_behind_proxy(ip) == "ipA"

\* request.remote_addr of a request that comes from address ip
remote_addr(ip) == ip

\* The comprehension with the boundary entry kept (<= instead of <).
KeepRecentInclusive(history, now_, window) ==
  SelectSeq(history, LAMBDA timestamp : now_ - timestamp <= window)

\* [timestamp for timestamp in history if current_time - timestamp < RATE_WINDOW]
KeepRecent(history, now_, window) ==
  SelectSeq(history, LAMBDA timestamp : now_ - timestamp < window)

\* The limit test with > instead of >=.
OverLimitStrict(history, limit) == Len(history) > limit

\* len(request_history[client_ip]) >= Config.RATE_LIMIT
OverLimit(history, limit) == Len(history) >= limit

\* HTTP status of render_unauthorized_access
render_unauthorized_access == 403

\* ----------------------------------------------------------------- state
VARIABLES
  RATE_LIMIT,          \* Config.RATE_LIMIT, read from the environment
  RATE_WINDOW,         \* Config.RATE_WINDOW, read from the environment
  now,                 \* the reading time.time() gives at this moment
  request_history,     \* the module-level dict: client_ip -> list of timestamps
  emails_autorizados,  \* auth_manager.emails_autorizados
  nombres_por_email,   \* auth_manager.nombres_por_email
  req,                 \* per thread: the request it handles and its locals
  served,              \* history: the rate limiter's decisions, in order
  started,             \* number of rate-limited requests started so far
  call,                \* the latest direct call of a function and its result
  alert_log            \* history: the security alerts handed to Telegram

vars == <<RATE_LIMIT, RATE_WINDOW, now, request_history, emails_autorizados,
          nombres_por_email, req, served, started, call, alert_log>>

GuardedEndpoints == {"confirm", "download", "dashboard"}
AuthDecorated == {"download", "dashboard"}
PublicEndpoints == {"home", "health", "admin_emails"}
Endpoints == GuardedEndpoints \cup PublicEndpoints

\* A thread that handles no request.
IdleReq ==
  [ pc |-> "idle", endpoint |-> "none", origin |-> "none",
    client_ip |-> "none",
    current_time |-> 0, kept |-> <<>>, seen |-> -1, entry |-> <<>>,
    rl |-> "none", email |-> "", auth_checked |-> FALSE,
    body_ran |-> FALSE, alerts |-> 0, notifs |-> 0, success |-> "none",
    status |-> 0, data |-> {} ]

\* No function has been called directly.
NoCall == [fn |-> "none", arg |-> "", out |-> <<>>]

\* request_history.get(ip, []) : the list of a client, empty when it has none
HistoryOf(h, ip) == IF ip \in DOMAIN h THEN h[ip] ELSE <<>>

\* d[k] = v on a dict
DictSet(d, k, v) == [x \in DOMAIN d \cup {k} |-> IF x = k THEN v ELSE d[x]]

\* func(*args, **kwargs) is entered: the wrapper's working values are dead
EnterFunc(r) == [r EXCEPT !.entry = <<>>, !.seen = -1]

Init ==
  /\ RATE_LIMIT \in 0..MaxLimit
  /\ RATE_WINDOW \in 1..MaxWindow
  /\ now = 0
  /\ request_history = <<>>
  /\ emails_autorizados = AuthorizedEmailsInit
  /\ nombres_por_email = NombresInit
  /\ req = [t \in Threads |-> IdleReq]
  /\ served = <<>>
  /\ started = 0
  /\ call = NoCall
  /\ alert_log = <<>>

\* The service started with RATE_LIMIT=2 and RATE_WINDOW=60 in its environment.
InitScenario ==
  /\ RATE_LIMIT = 2
  /\ RATE_WINDOW = 60
  /\ now = 0
  /\ request_history = <<>>
  /\ emails_autorizados = AuthorizedEmailsInit
  /\ nombres_por_email = NombresInit
  /\ req = [t \in Threads |-> IdleReq]
  /\ served = <<>>
  /\ started = 0
  /\ call = NoCall
  /\ alert_log = <<>>

\* The configuration is read once, at import.
ConfigFrozen == UNCHANGED <<RATE_LIMIT, RATE_WINDOW, call, alert_log>>

Frozen == ConfigFrozen /\ UNCHANGED <<emails_autorizados, nombres_por_email>>

\* What a call auth_manager.is_email_authorized(email) does to auth_manager.
IsEmailAuthorizedEffect(email) ==
  /\ emails_autorizados' = emails_autorizados
  /\ nombres_por_email' =
       IF email = ""
         THEN nombres_por_email
         ELSE nombres_after_get(nombres_por_email, email_normalizado(email))

\* time passes
Tick ==
  /\ now < MaxTime
  /\ now' = now + 1
  /\ Frozen
  /\ UNCHANGED <<request_history, req, served, started>>

\* Flask dispatches a request for endpoint e from address ip to thread t.
\* For a @rate_limit endpoint the wrapper reads request.remote_addr and
\* time.time().
DispatchUpTo(t, e, ip, cap) ==
  /\ req[t].pc = "idle"
  /\ IF e \in GuardedEndpoints
       THEN /\ started < cap
            /\ started' = started + 1
            /\ req' = [req EXCEPT ![t] =
                 [IdleReq EXCEPT !.pc = "setdefault", !.endpoint = e,
                                 !.origin = ip,
                                 !.client_ip = remote_addr(ip),
                                 !.current_time = now,
                                 !.entry = HistoryOf(request_history, remote_addr(ip))]]
       ELSE /\ started' = started
            /\ req' = [req EXCEPT ![t] =
                 [IdleReq EXCEPT !.pc = "body", !.endpoint = e]]
  /\ Frozen
  /\ UNCHANGED <<now, request_history, served>>

Dispatch(t, e, ip) == DispatchUpTo(t, e, ip, MaxRequests)

\* time passes until the clock reads until
Sleep(until) ==
  /\ now < until
  /\ now' = until
  /\ Frozen
  /\ UNCHANGED <<request_history, req, served, started>>

\* request_history.setdefault(client_ip, [])
SetDefault(t) ==
  /\ req[t].pc = "setdefault"
  /\ request_history' =
       IF req[t].client_ip \in DOMAIN request_history
         THEN request_history
         ELSE DictSet(request_history, req[t].client_ip, <<>>)
  /\ req' = [req EXCEPT ![t].pc = "filter"]
  /\ Frozen
  /\ UNCHANGED <<now, served, started>>

\* the list comprehension is evaluated into a new list
Filter(t) ==
  /\ req[t].pc = "filter"
  /\ req' = [req EXCEPT ![t].pc = "store",
                        ![t].kept = KeepRecent(request_history[req[t].client_ip],
                                               req[t].current_time, RATE_WINDOW)]
  /\ Frozen
  /\ UNCHANGED <<now, request_history, served, started>>

\* request_history[client_ip] = <the new list>
Store(t) ==
  /\ req[t].pc = "store"
  /\ request_history' = DictSet(request_history, req[t].client_ip, req[t].kept)
  /\ req' = [req EXCEPT ![t].pc = "check", ![t].kept = <<>>]
  /\ Frozen
  /\ UNCHANGED <<now, served, started>>

\* The 429 branch without its return: the request falls through.
OnOverLimitFallThrough(r) == [r EXCEPT !.pc = "append", !.rl = "throttled"]

\* return jsonify({...}), 429
OnOverLimit(r) == [r EXCEPT !.pc = "done", !.rl = "throttled", !.status = 429]

\* if len(request_history[client_ip]) >= Config.RATE_LIMIT: ... return 429
Check(t) ==
  /\ req[t].pc = "check"
  /\ LET history == request_history[req[t].client_ip]
         over == OverLimit(history, RATE_LIMIT)
         r == [req[t] EXCEPT !.seen = Len(history)]
     IN /\ req' = [req EXCEPT ![t] =
                     IF over THEN OnOverLimit(r)
                             ELSE [r EXCEPT !.pc = "append", !.rl = "admitted"]]
        /\ served' = Append(served, [origin |-> req[t].origin,
                                     t |-> req[t].current_time,
                                     admitted |-> ~over])
  /\ Frozen
  /\ UNCHANGED <<now, request_history, started>>

\* request_history[client_ip].append(current_time); return func(...)
AppendStamp(t) ==
  /\ req[t].pc = "append"
  /\ request_history' =
       DictSet(request_history, req[t].client_ip,
               Append(request_history[req[t].client_ip], req[t].current_time))
  /\ req' = [req EXCEPT ![t].pc =
               IF req[t].endpoint \in AuthDecorated THEN "auth" ELSE "body"]
  /\ Frozen
  /\ UNCHANGED <<now, served, started>>

\* --------------------------------------------------------- the endpoints
\* Keys of urls_descarga in track_download.
urls_descarga ==
  {"presupuesto_general", "por_proveedor", "nuevos_articulos", "alertas"}

\* What TelegramNotifier.send_message can return.
SendResults == {"ok", "failed"}

\* /confirm: `if success:` page (200) `else:` jsonify(...), 500
ConfirmStatus(success) == IF success = "ok" THEN 200 ELSE 500

\* /download: redirect(urls_descarga[archivo]) or jsonify(...), 404
DownloadStatus(archivo) == IF archivo \in urls_descarga THEN 302 ELSE 404

\* The unauthorized branch without its return: the alert is sent and the
\* request goes on to func.
OnNotAuthorizedFallThrough(r) ==
  [r EXCEPT !.pc = "body", !.auth_checked = TRUE, !.alerts = @ + 1]

\* `if not autorizado:` send the security alert, return the 403 page
OnNotAuthorized(r) ==
  [r EXCEPT !.pc = "done", !.auth_checked = TRUE, !.alerts = @ + 1,
            !.status = render_unauthorized_access]

\* require_authorized_email.wrapper, for the request of thread t with query
\* parameter email = e; sent is what send_message returns if it is called.
RequireAuthorizedEmailStep(t, e, sent) ==
  /\ req[t].pc = "auth"
  /\ LET r == [EnterFunc(req[t]) EXCEPT !.email = e]
         res == is_email_authorized(e, emails_autorizados, nombres_por_email)
     IN req' = [req EXCEPT ![t] =
          IF e = ""
            THEN [r EXCEPT !.pc = "done", !.auth_checked = TRUE,
                           !.status = render_unauthorized_access]
            ELSE IF ~res[1]
              THEN OnNotAuthorized(r)
              ELSE [r EXCEPT !.pc = "body", !.auth_checked = TRUE]]
  /\ IF e = ""
       THEN UNCHANGED <<emails_autorizados, nombres_por_email>>
       ELSE IsEmailAuthorizedEffect(e)
  /\ UNCHANGED <<RATE_LIMIT, RATE_WINDOW, call>>
  /\ UNCHANGED <<now, request_history, served, started>>

RequireAuthorizedEmail(t, e, sent) ==
  /\ RequireAuthorizedEmailStep(t, e, sent)
  /\ UNCHANGED alert_log

\* The same step, with every security alert it sends (one call of
\* TelegramNotifier.send_message with the alert text) noted in alert_log.
RequireAuthorizedEmailLogged(t, e, sent) ==
  /\ RequireAuthorizedEmailStep(t, e, sent)
  /\ alert_log' =
       IF req'[t].alerts > req[t].alerts
         THEN Append(alert_log, [origin |-> req[t].origin,
                                 t |-> req[t].current_time])
         ELSE alert_log

\* confirm(), after the rate limiter admitted the request
Confirm(t, e, sent) ==
  /\ req[t].pc = "body" /\ req[t].endpoint = "confirm"
  /\ LET r == [EnterFunc(req[t]) EXCEPT !.email = e, !.body_ran = TRUE,
                                          !.pc = "done"]
         res == is_email_authorized(e, emails_autorizados, nombres_por_email)
     IN req' = [req EXCEPT ![t] =
          IF ~validate_email(e)
            THEN [r EXCEPT !.status = 400]
            ELSE IF ~res[1]
              THEN [r EXCEPT !.auth_checked = TRUE,
                             !.status = render_unauthorized_access]
              ELSE [r EXCEPT !.auth_checked = TRUE, !.notifs = @ + 1,
                             !.success = sent,
                             !.status = ConfirmStatus(sent)]]
  /\ IF validate_email(e)
       THEN IsEmailAuthorizedEffect(e)
       ELSE UNCHANGED <<emails_autorizados, nombres_por_email>>
  /\ ConfigFrozen
  /\ UNCHANGED <<now, request_history, served, started>>

\* track_download(), reached through rate_limit and require_authorized_email
TrackDownload(t, archivo, sent) ==
  /\ req[t].pc = "body" /\ req[t].endpoint = "download"
  /\ req' = [req EXCEPT ![t] =
       [EnterFunc(@) EXCEPT !.pc = "done", !.body_ran = TRUE, !.notifs = @ + 1,
                 !.success = sent, !.status = DownloadStatus(archivo)]]
  /\ Frozen
  /\ UNCHANGED <<now, request_history, served, started>>

\* track_dashboard_access()
TrackDashboardAccess(t, sent) ==
  /\ req[t].pc = "body" /\ req[t].endpoint = "dashboard"
  /\ req' = [req EXCEPT ![t] =
       [EnterFunc(@) EXCEPT !.pc = "done", !.body_ran = TRUE, !.notifs = @ + 1,
                 !.success = sent, !.status = 302]]
  /\ Frozen
  /\ UNCHANGED <<now, request_history, served, started>>

\* home(), health_check() and admin_emails(): no decorator, always 200;
\* admin_emails() puts auth_manager.get_authorized_emails() in its response
Public(t) ==
  /\ req[t].pc = "body" /\ req[t].endpoint \in PublicEndpoints
  /\ req' = [req EXCEPT ![t] =
       [@ EXCEPT !.pc = "done", !.body_ran = TRUE, !.status = 200,
                 !.data = IF req[t].endpoint = "admin_emails"
                            THEN get_authorized_emails(emails_autorizados)
                            ELSE {}]]
  /\ Frozen
  /\ UNCHANGED <<now, request_history, served, started>>

\* the response has been sent; the thread is free again
Finish(t) ==
  /\ req[t].pc = "done"
  /\ req' = [req EXCEPT ![t] = IdleReq]
  /\ Frozen
  /\ UNCHANGED <<now, request_history, served, started>>

\* ------------------------------------------------ direct function calls
\* auth_manager.is_email_authorized(s) is called with the string s
CallIsEmailAuthorized(s) ==
  /\ call' = [fn |-> "is_email_authorized", arg |-> s,
              out |-> is_email_authorized(s, emails_autorizados,
                                          nombres_por_email)]
  /\ IsEmailAuthorizedEffect(s)
  /\ UNCHANGED <<RATE_LIMIT, RATE_WINDOW, now, request_history, req, served,
                 started, alert_log>>

\* validate_email(s) is called with the string s
CallValidateEmail(s) ==
  /\ call' = [fn |-> "validate_email", arg |-> s, out |-> <<validate_email(s)>>]
  /\ UNCHANGED <<RATE_LIMIT, RATE_WINDOW, now, request_history,
                 emails_autorizados, nombres_por_email, req, served, started,
                 alert_log>>

\* auth_manager.get_authorized_emails() is called
CallGetAuthorizedEmails ==
  /\ call' = [fn |-> "get_authorized_emails", arg |-> "",
              out |-> <<get_authorized_emails(emails_autorizados)>>]
  /\ UNCHANGED <<RATE_LIMIT, RATE_WINDOW, now, request_history,
                 emails_autorizados, nombres_por_email, req, served, started,
                 alert_log>>

\* The server with one worker thread: requests are handled one at a time,
\* each with any of the modelled inputs.
Next ==
  \/ Tick
  \/ \E e \in Endpoints, ip \in Clients : Dispatch(Worker, e, ip)
  \/ SetDefault(Worker)
  \/ Filter(Worker)
  \/ Store(Worker)
  \/ Check(Worker)
  \/ AppendStamp(Worker)
  \/ \E e \in RawEmails, sent \in SendResults :
       RequireAuthorizedEmail(Worker, e, sent)
  \/ \E e \in RawEmails, sent \in SendResults : Confirm(Worker, e, sent)
  \/ \E a \in Archivos, sent \in SendResults : TrackDownload(Worker, a, sent)
  \/ \E sent \in SendResults : TrackDashboardAccess(Worker, sent)
  \/ Public(Worker)
  \/ Finish(Worker)

Spec == Init /\ [][Next]_vars

\* The threaded server: requests for /dashboard (rate_limit, then
\* require_authorized_email, then the body) are handled on every thread with
\* the statements of their handlers interleaved.
NextThreaded ==
  \/ Tick
  \/ \E t \in Threads, ip \in Clients : Dispatch(t, "dashboard", ip)
  \/ \E t \in Threads : SetDefault(t)
  \/ \E t \in Threads : Filter(t)
  \/ \E t \in Threads : Store(t)
  \/ \E t \in Threads : Check(t)
  \/ \E t \in Threads : AppendStamp(t)
  \/ \E t \in Threads, e \in ThreadedEmails : RequireAuthorizedEmail(t, e, "ok")
  \/ \E t \in Threads : TrackDashboardAccess(t, "ok")
  \/ \E t \in Threads : Finish(t)

SpecThreaded == Init /\ [][NextThreaded]_vars

\* One client calling /dashboard again and again, one request at a time, at
\* the clock readings of ScenarioTimes, with limit 2 and window 60.
NextScenario ==
  \/ \E until \in ScenarioTimes : Sleep(until)
  \/ DispatchUpTo(Worker, "dashboard", "ipA", ScenarioCalls)
  \/ SetDefault(Worker)
  \/ Filter(Worker)
  \/ Store(Worker)
  \/ Check(Worker)
  \/ AppendStamp(Worker)
  \/ RequireAuthorizedEmail(Worker, "am@dongaston.com.ar", "ok")
  \/ TrackDashboardAccess(Worker, "ok")
  \/ Finish(Worker)

SpecScenario == InitScenario /\ [][NextScenario]_vars

\* The server with one worker thread and the two endpoints that send
\* security alerts, /download and /dashboard, with every alert logged.
NextAlerts ==
  \/ Tick
  \/ \E e \in AuthDecorated, ip \in Clients : Dispatch(Worker, e, ip)
  \/ SetDefault(Worker)
  \/ Filter(Worker)
  \/ Store(Worker)
  \/ Check(Worker)
  \/ AppendStamp(Worker)
  \/ \E e \in AlertEmails, sent \in SendResults :
       RequireAuthorizedEmailLogged(Worker, e, sent)
  \/ TrackDownload(Worker, "alertas", "ok")
  \/ TrackDashboardAccess(Worker, "ok")
  \/ Finish(Worker)

SpecAlerts == Init /\ [][NextAlerts]_vars

\* The functions of the module called directly, with every modelled string.
NextCalls ==
  \/ \E s \in DOMAIN Chars : CallIsEmailAuthorized(s)
  \/ \E s \in DOMAIN Chars : CallValidateEmail(s)
  \/ CallGetAuthorizedEmails

SpecCalls == Init /\ [][NextCalls]_vars


\* ---------------------------------------------------------------- claims
\* Helpers of the claims below.

\* The timestamps of history that are less than window old at time now_.
LiveAt(history, now_, window) ==
  SelectSeq(history, LAMBDA ts : now_ - ts < window)

\* The rate limiter has decided the request r and func has not begun, so
\* the list the request found on arrival (r.entry) is still known.
GateDecided(r) ==
  \/ r.rl = "throttled" /\ r.pc = "done"
  \/ r.rl = "admitted" /\ r.pc \in {"auth", "body"} /\ r.seen # -1

\* Positions of served that hold requests of client c with a timestamp
\* in the span [s, s + RATE_WINDOW).
InSpan(c, s) ==
  {i \in 1..Len(served) :
     /\ served[i].origin = c
     /\ s <= served[i].t
     /\ served[i].t < s + RATE_WINDOW}

\* The rank of request i among the requests of its client in the span from s.
RankInSpan(i, s) ==
  Cardinality({j \in InSpan(served[i].origin, s) : j <= i})

\* Admitted earlier requests of the client of request i still in its window.
LiveBefore(i) ==
  {j \in 1..(i - 1) :
     /\ served[j].origin = served[i].origin
     /\ served[j].admitted
     /\ served[i].t - served[j].t < RATE_WINDOW}

\* C1 as stated: in every span of length RATE_WINDOW the first RATE_LIMIT
\* requests of a client are admitted and the next one in the span is
\* rejected.
C1_FirstLOfEverySpan ==
  RATE_LIMIT >= 1 =>
    \A s \in 0..MaxTime : \A i \in 1..Len(served) :
      i \in InSpan(served[i].origin, s) =>
        /\ RankInSpan(i, s) <= RATE_LIMIT => served[i].admitted
        /\ RankInSpan(i, s) = RATE_LIMIT + 1 => ~served[i].admitted

\* C1 (amended): with requests handled one at a time, a request is admitted
\* exactly when fewer than RATE_LIMIT requests of its client were admitted
\* less than RATE_WINDOW before it; so no span [s, s + RATE_WINDOW) holds
\* more than RATE_LIMIT admitted requests of one client, and a rejected
\* request is answered 429.
C1_AtMostLPerWindow ==
  /\ \A i \in 1..Len(served) :
       served[i].admitted <=> Cardinality(LiveBefore(i)) < RATE_LIMIT
  /\ \A c \in Clients, s \in 0..MaxTime :
       Cardinality({i \in InSpan(c, s) : served[i].admitted}) <= RATE_LIMIT
  /\ \A t \in Threads :
       req[t].rl = "throttled" /\ req[t].pc = "done" => req[t].status = 429

\* C1 witness: a client with a positive limit had a request admitted, a
\* later one rejected and, after the window, one admitted again.
C1_Witness ==
  /\ RATE_LIMIT >= 1
  /\ \E i, j, k \in 1..Len(served) :
       /\ i < j /\ j < k
       /\ served[i].origin = served[j].origin
       /\ served[j].origin = served[k].origin
       /\ served[i].admitted /\ ~served[j].admitted /\ served[k].admitted

\* C2: two requests of one client that are handled concurrently never both
\* pass the limit test on the same pre-append count RATE_LIMIT - 1 (both
\* past `if len(...) >= RATE_LIMIT`, neither having appended yet).
C2_GateIsAtomic ==
  \A t1, t2 \in Threads :
    t1 # t2 /\ req[t1].client_ip = req[t2].client_ip =>
      ~ /\ req[t1].pc = "append" /\ req[t1].seen = RATE_LIMIT - 1
        /\ req[t2].pc = "append" /\ req[t2].seen = RATE_LIMIT - 1

\* C3: on /confirm, /download and /dashboard the normal notification is sent
\* and a success page (200) or redirect (302) is returned only to a request
\* the rate limiter admitted whose email, trimmed and lowercased, is in the
\* authorized set.
C3_SuccessOnlyIfAuthorized ==
  \A t \in Threads :
    req[t].endpoint \in GuardedEndpoints
      /\ (req[t].notifs > 0 \/ req[t].status \in {200, 302}) =>
        /\ req[t].rl = "admitted"
        /\ req[t].email # ""
        /\ email_normalizado(req[t].email) \in emails_autorizados

\* C3 witness: a redirect given to an address that is listed only after
\* trimming and lowercasing.
C3_Witness ==
  \E t \in Threads :
    /\ req[t].endpoint = "download" /\ req[t].status = 302
    /\ req[t].notifs = 1
    /\ req[t].email = "  AM@DonGaston.com.ar "

\* C4: the rate-limit check precedes everything else of a guarded request:
\* the authorization check, the notifier and the endpoint body are reached
\* only by an admitted request, and a throttled request ends at once with
\* 429, having called nothing.
C4_ThrottledStopsAtGate ==
  \A t \in Threads :
    req[t].endpoint \in GuardedEndpoints =>
      /\ ( \/ req[t].auth_checked \/ req[t].body_ran
           \/ req[t].notifs > 0 \/ req[t].alerts > 0
           \/ req[t].pc \in {"auth", "body"} ) => req[t].rl = "admitted"
      /\ req[t].rl = "throttled" =>
           /\ req[t].pc = "done" /\ req[t].status = 429
           /\ ~req[t].auth_checked /\ ~req[t].body_ran
           /\ req[t].notifs = 0 /\ req[t].alerts = 0

\* C4 witness: a throttled request for an endpoint that requires
\* authorization.
C4_Witness ==
  \E t \in Threads :
    /\ req[t].endpoint \in AuthDecorated
    /\ req[t].rl = "throttled" /\ req[t].pc = "done"

\* C5: a rejected request is not recorded: after the rejection the client's
\* list is the list the request found, without the entries RATE_WINDOW old
\* or older, and nothing else.
C5_RejectedNotRecorded ==
  \A t \in Threads :
    req[t].rl = "throttled" /\ req[t].pc = "done" =>
      /\ req[t].client_ip \in DOMAIN request_history
      /\ request_history[req[t].client_ip]
           = LiveAt(req[t].entry, req[t].current_time, RATE_WINDOW)

\* C5 witness: a request rejected at a time later than the entry that
\* keeps its client throttled.
C5_Witness ==
  \E t \in Threads :
    /\ req[t].rl = "throttled" /\ req[t].pc = "done"
    /\ request_history[req[t].client_ip] # <<>>
    /\ req[t].current_time > request_history[req[t].client_ip][1]

\* C6 as stated: the client's list exists after its first request and has
\* one more entry than the live entries the request found, whether the rate
\* limiter admitted or rejected the request (for a positive RATE_LIMIT).
C6_GrowsOnEveryRequest ==
  \A t \in Threads :
    RATE_LIMIT >= 1 /\ GateDecided(req[t]) =>
      /\ req[t].client_ip \in DOMAIN request_history
      /\ Len(request_history[req[t].client_ip])
           = Len(LiveAt(req[t].entry, req[t].current_time, RATE_WINDOW)) + 1

\* C6 (amended): a client's list is created by the client's first request;
\* an admitted request leaves it as the live entries it found followed by
\* its own timestamp (one more entry), and a rejected request leaves it as
\* the live entries it found (no growth).
C6_GrowsOnlyWhenAdmitted ==
  /\ \A c \in DOMAIN request_history :
       \/ \E i \in 1..Len(served) : served[i].origin = c
       \/ \E t \in Threads : req[t].client_ip = c
  /\ \A t \in Threads :
       GateDecided(req[t]) =>
         /\ req[t].client_ip \in DOMAIN request_history
         /\ request_history[req[t].client_ip] =
              IF req[t].rl = "admitted"
                THEN Append(LiveAt(req[t].entry, req[t].current_time, RATE_WINDOW),
                            req[t].current_time)
                ELSE LiveAt(req[t].entry, req[t].current_time, RATE_WINDOW)

\* C6 witness: a rejected request that left a list of the length it found.
C6_Witness ==
  \E t \in Threads :
    /\ req[t].rl = "throttled" /\ req[t].pc = "done"
    /\ req[t].entry # <<>>
    /\ Len(request_history[req[t].client_ip]) = Len(req[t].entry)

\* C7: a throttled client is admitted again once the window has elapsed: a
\* request made RATE_WINDOW or more after the oldest timestamp its client
\* has recorded (hence also after the newest) is admitted, however many
\* rejected probes the client made in between.
C7_ReadmittedAfterWindow ==
  \A t \in Threads :
    /\ req[t].rl # "none"
    /\ req[t].entry # <<>>
    /\ req[t].current_time >= req[t].entry[1] + RATE_WINDOW
    => req[t].rl = "admitted"

\* C7 witness: a client admitted at the first request made RATE_WINDOW after
\* its oldest recorded timestamp, having been rejected in between.
C7_Witness ==
  \E t \in Threads :
    /\ req[t].rl = "admitted"
    /\ req[t].entry # <<>>
    /\ req[t].current_time = req[t].entry[1] + RATE_WINDOW
    /\ \E i \in 1..Len(served) :
         /\ served[i].origin = req[t].origin
         /\ ~served[i].admitted
         /\ served[i].t >= req[t].entry[1]

\* The decision on every served request follows from the earlier requests
\* of the same client and its own time alone.
DecidedOnOwnHistory ==
  \A i \in 1..Len(served) :
    served[i].admitted <=> Cardinality(LiveBefore(i)) < RATE_LIMIT

\* C8: distinct clients are isolated: a step of a request that comes from
\* client A changes the list of no other client B, and every decision
\* depends only on the requests of the same client and the time.
C8_ClientsIsolated ==
  [][ /\ \A t \in Threads : \A c \in Clients :
           /\ req'[t] # req[t]
           /\ c # req[t].origin /\ c # req'[t].origin
           => /\ (c \in DOMAIN request_history') = (c \in DOMAIN request_history)
              /\ HistoryOf(request_history', c) = HistoryOf(request_history, c)
      /\ DecidedOnOwnHistory' ]_vars

\* C8 witness: a client is admitted after another client was rejected, at a
\* time when that other client is still throttled.
C8_Witness ==
  \E i, j \in 1..Len(served) :
    /\ i < j
    /\ served[i].origin # served[j].origin
    /\ ~served[i].admitted /\ served[j].admitted
    /\ served[j].t - served[i].t < RATE_WINDOW
    /\ RATE_LIMIT >= 1

\* The email parameter of request r is absent, or not on the allow-list
\* after trimming and lowercasing.
NotListed(r) ==
  r.email = "" \/ email_normalizado(r.email) \notin emails_autorizados

\* C9 as stated: a throttled request gets 429, and an admitted request to
\* /confirm, /download or /dashboard whose email is missing, syntactically
\* invalid or not listed gets 403.
C9_Unauthorized403 ==
  \A t \in Threads :
    req[t].endpoint \in GuardedEndpoints /\ req[t].pc = "done" =>
      /\ req[t].rl = "throttled" => req[t].status = 429
      /\ req[t].rl = "admitted"
           /\ (NotListed(req[t]) \/ ~ValidFormatOf[req[t].email])
           => req[t].status = 403

\* C9 (amended): a throttled request gets 429; an admitted request to
\* /download or /dashboard whose email is missing or not listed gets 403; an
\* admitted request to /confirm gets 400 when its email is missing or
\* syntactically invalid and 403 when the email is well formed but not
\* listed.
C9_RejectionStatus ==
  \A t \in Threads :
    req[t].endpoint \in GuardedEndpoints /\ req[t].pc = "done" =>
      /\ req[t].rl = "throttled" => req[t].status = 429
      /\ req[t].rl = "admitted" /\ req[t].endpoint \in AuthDecorated
           /\ NotListed(req[t]) => req[t].status = 403
      /\ req[t].rl = "admitted" /\ req[t].endpoint = "confirm"
           /\ ~ValidFormatOf[req[t].email] => req[t].status = 400
      /\ req[t].rl = "admitted" /\ req[t].endpoint = "confirm"
           /\ ValidFormatOf[req[t].email] /\ NotListed(req[t])
           => req[t].status = 403

\* C9 witness: /confirm answers 400 to an address with a suspicious
\* character.
C9_Witness ==
  \E t \in Threads :
    /\ req[t].endpoint = "confirm" /\ req[t].pc = "done"
    /\ req[t].email = "a@b.com<script>" /\ req[t].status = 400

\* C10: on /confirm, /download and /dashboard a failed notification call
\* gives a 500 response, and a success response (200 or 302) is given only
\* when the notification call succeeded.
C10_FailureGives500 ==
  \A t \in Threads :
    req[t].endpoint \in GuardedEndpoints /\ req[t].pc = "done" =>
      /\ req[t].success = "failed" => req[t].status = 500
      /\ req[t].status \in {200, 302} => req[t].success = "ok"


\* C11: every request to /confirm, /download or /dashboard that is rejected
\* as unauthorized (403) has sent one security alert and no normal
\* notification.
C11_UnauthorizedAlerts ==
  \A t \in Threads :
    /\ req[t].endpoint \in GuardedEndpoints /\ req[t].pc = "done"
    /\ req[t].status = render_unauthorized_access
    => req[t].alerts = 1 /\ req[t].notifs = 0

\* C12: is_email_authorized on an email of the authorized set returns true
\* with the display name registered for that email, never the unknown-user
\* placeholder.
C12_ListedHasRegisteredName ==
  call.fn = "is_email_authorized" /\ call.arg \in emails_autorizados =>
    /\ call.out[1] = TRUE
    /\ call.out[2] # "Usuario desconocido"
    /\ call.arg \in DOMAIN nombres_por_email
    /\ call.out[2] = nombres_por_email[call.arg]

\* C13: is_email_authorized returns false with the empty-input marker for
\* the empty string, and false with the unknown-user name (never a
\* registered name) for a non-empty input whose normalized form is not in
\* the authorized set.
C13_UnlistedIsUnknown ==
  call.fn = "is_email_authorized" =>
    /\ call.arg = "" => call.out = <<FALSE, "Email vacio">>
    /\ call.arg # "" /\ email_normalizado(call.arg) \notin emails_autorizados
         => call.out = <<FALSE, "Usuario desconocido">>

\* C14: is_email_authorized gives for every input the result it gives for
\* the trimmed, lowercased input, and normalizing twice is normalizing once.
C14_NormalizationInvariant ==
  call.fn = "is_email_authorized" =>
    /\ call.out = is_email_authorized(email_normalizado(call.arg),
                                      emails_autorizados, nombres_por_email)
    /\ email_normalizado(email_normalizado(call.arg))
         = email_normalizado(call.arg)

\* C15: validate_email returns false exactly when the input is empty, has no
\* '@', has no '.', or has one of < > " ' ; \ / ( ) { }, and true for every
\* other input; the call changes nothing else.
C15_ValidateEmailExact ==
  [][ call'.fn = "validate_email" =>
        /\ call'.out[1] =
             ~ \/ call'.arg = ""
               \/ ~Contains(Chars[call'.arg], "@")
               \/ ~Contains(Chars[call'.arg], ".")
               \/ \E c \in {"<", ">", "\"", "'", ";", "\\", "/", "(", ")", "{", "}"} :
                    Contains(Chars[call'.arg], c)
        /\ UNCHANGED <<RATE_LIMIT, RATE_WINDOW, now, request_history,
                       emails_autorizados, nombres_por_email, req, served,
                       started, alert_log>> ]_vars

\* C15 witness: an address rejected only for its backslash, after one was
\* accepted.
C15_Witness ==
  /\ call.fn = "validate_email"
  /\ call.arg = "a@b.com\\"
  /\ call.out = <<FALSE>>

\* C16: every request passes the rate limiter before any endpoint logic
\* runs: a handler body runs, and a response with data is given, only for a
\* request the rate limiter admitted.
C16_EveryRequestGated ==
  \A t \in Threads :
    req[t].body_ran \/ req[t].data # {} => req[t].rl = "admitted"

\* C17: right after the rate limiter has processed a request of a client at
\* time current_time, every timestamp left in that client's list is less
\* than RATE_WINDOW old; and a list only loses entries in the pruning step of
\* a request of its own client.
C17_FreshAfterAccess ==
  [][ /\ \A t \in Threads :
           GateDecided(req'[t]) =>
             \A i \in 1..Len(request_history'[req'[t].client_ip]) :
               req'[t].current_time
                 - request_history'[req'[t].client_ip][i] < RATE_WINDOW
      /\ \A c \in Clients :
           Len(HistoryOf(request_history', c)) < Len(HistoryOf(request_history, c))
           => \E t \in Threads :
                /\ req[t].pc = "store" /\ req'[t].pc = "check"
                /\ req[t].origin = c ]_vars

\* C17 witness: a request of one client has been decided while the list of
\* another client still holds an entry RATE_WINDOW old or older.
C17_Witness ==
  \E t \in Threads : \E c \in DOMAIN request_history :
    /\ GateDecided(req[t]) /\ c # req[t].client_ip
    /\ \E i \in 1..Len(request_history[c]) :
         req[t].current_time - request_history[c][i] >= RATE_WINDOW

\* C18: with RATE_LIMIT = 0 every request to a rate-limited endpoint is
\* rejected with 429 and no timestamp is ever recorded.
C18_ZeroLimitRejectsAll ==
  RATE_LIMIT = 0 =>
    /\ \A i \in 1..Len(served) : ~served[i].admitted
    /\ \A c \in DOMAIN request_history : request_history[c] = <<>>
    /\ \A t \in Threads :
         /\ req[t].rl # "admitted"
         /\ ~req[t].body_ran \/ req[t].endpoint \in PublicEndpoints
         /\ req[t].rl = "throttled" => req[t].status = 429

\* C18 witness: with RATE_LIMIT = 0 both clients have been rejected, one of
\* them again at a later time.
C18_Witness ==
  /\ RATE_LIMIT = 0
  /\ \E i, j, k \in 1..Len(served) :
       /\ served[i].origin # served[j].origin
       /\ served[k].origin = served[i].origin /\ served[k].t > served[i].t
  /\ \E t \in Threads : req[t].pc = "done" /\ req[t].status = 429

\* C19: the authorized set and the name table are the ones built at
\* construction, whatever requests have been served and whatever lookups
\* have been made.
C19_AuthDataImmutable ==
  /\ emails_autorizados = AuthorizedEmailsInit
  /\ nombres_por_email = NombresInit

\* C19 witness: /admin/emails has returned its snapshot after a lookup of an
\* unknown address was made by an earlier request.
C19_Witness ==
  /\ \E t \in Threads :
       /\ req[t].endpoint = "admin_emails" /\ req[t].pc = "done"
       /\ req[t].data = AuthorizedEmailsInit
  /\ Len(served) >= 1

\* C20: the notifier is called at most once per request: one security
\* alert, or one normal notification, or none.
C20_AtMostOneNotifierCall ==
  \A t \in Threads : req[t].alerts + req[t].notifs <= 1

\* C20 witness: a request whose only notification failed and was not
\* retried.
C20_Witness ==
  \E t \in Threads :
    /\ req[t].pc = "done" /\ req[t].success = "failed"
    /\ req[t].notifs = 1 /\ req[t].alerts = 0

\* C21: a recorded timestamp is dropped by a request exactly when it is
\* RATE_WINDOW old or older at that request's time (an entry exactly
\* RATE_WINDOW old is dropped); and with limit 2 and window 60 one client
\* calling at 0, 10, 20, 61, 62 is admitted, admitted, rejected, admitted,
\* rejected, the last call finding the entries 10 and 61 (which stay until
\* the client calls again).
C21_WindowBoundary ==
  /\ \A t \in Threads :
       req[t].pc = "check" =>
         \A i \in 1..Len(req[t].entry) :
           (\E j \in 1..Len(request_history[req[t].client_ip]) :
              request_history[req[t].client_ip][j] = req[t].entry[i])
           <=> ~(req[t].current_time - req[t].entry[i] >= RATE_WINDOW)
  /\ RATE_LIMIT = 2 /\ RATE_WINDOW = 60 /\ Len(served) <= 5
     /\ [i \in 1..Len(served) |-> served[i].t]
          = SubSeq(<<0, 10, 20, 61, 62>>, 1, Len(served))
     => /\ [i \in 1..Len(served) |-> served[i].admitted]
             = SubSeq(<<TRUE, TRUE, FALSE, TRUE, FALSE>>, 1, Len(served))
        /\ Len(served) = 5 /\ started = 5
             => request_history["ipA"] = <<10, 61>>

\* C21 witness: the five calls of the scenario have been decided.
C21_Witness ==
  /\ [i \in 1..Len(served) |-> served[i].t] = <<0, 10, 20, 61, 62>>
  /\ ~served[5].admitted
  /\ request_history["ipA"] = <<10, 61>>

\* C22: in every reachable state the list of timestamps of every client has
\* at most RATE_LIMIT entries, also when requests of one client are handled
\* on two threads with their prune, check and append steps interleaved.
C22_LengthAtMostLimit ==
  \A c \in DOMAIN request_history : Len(request_history[c]) <= RATE_LIMIT

\* The number of entries of history equal to ts.
Occurrences(history, ts) ==
  Cardinality({i \in 1..Len(history) : history[i] = ts})

\* The requests that have appended their timestamp ts to the list of
\* client c and are still being handled.
AppendedBy(c, ts) ==
  {t \in Threads :
     /\ req[t].rl = "admitted" /\ req[t].pc \in {"auth", "body", "done"}
     /\ req[t].client_ip = c /\ req[t].current_time = ts}

\* C23: the timestamp of an admitted request stays in its client's list as
\* long as no access at a time RATE_WINDOW or more later can have pruned it
\* (the clock itself is less than RATE_WINDOW past it), also when another
\* request of the client stores its pruned list concurrently with the
\* append.
C23_NoTimestampLost ==
  \A t \in Threads :
    /\ req[t].rl = "admitted" /\ req[t].pc \in {"auth", "body", "done"}
    /\ now - req[t].current_time < RATE_WINDOW
    => Occurrences(request_history[req[t].client_ip], req[t].current_time)
         >= Cardinality(AppendedBy(req[t].client_ip, req[t].current_time))

\* The security alerts client c has triggered with requests timed in the
\* span [s, s + RATE_WINDOW).
AlertsInSpan(c, s) ==
  {i \in 1..Len(alert_log) :
     /\ alert_log[i].origin = c
     /\ s <= alert_log[i].t
     /\ alert_log[i].t < s + RATE_WINDOW}

\* C24: with requests handled one at a time, a request to /download or
\* /dashboard that ends with the 403 page was admitted by the rate limiter
\* and its timestamp is in its client's list; and no client triggers more
\* than RATE_LIMIT security alerts in any span of RATE_WINDOW.
C24_AlertsConsumeSlots ==
  /\ \A t \in Threads :
       /\ req[t].endpoint \in AuthDecorated /\ req[t].pc = "done"
       /\ req[t].status = render_unauthorized_access
       => /\ req[t].rl = "admitted"
          /\ \E i \in 1..Len(request_history[req[t].client_ip]) :
               request_history[req[t].client_ip][i] = req[t].current_time
  /\ \A c \in Clients : \A s \in 0..now :
       Cardinality(AlertsInSpan(c, s)) <= RATE_LIMIT

\* C24 witness: a client that has triggered RATE_LIMIT alerts in the window
\* of its current request is answered 429.
C24_Witness ==
  \E t \in Threads :
    /\ RATE_LIMIT >= 1
    /\ req[t].pc = "done" /\ req[t].status = 429
    /\ Cardinality({i \in 1..Len(alert_log) :
                      /\ alert_log[i].origin = req[t].origin
                      /\ req[t].current_time - alert_log[i].t < RATE_WINDOW})
         = RATE_LIMIT
====
